---- MODULE Spec2Model ----
(***************************************************************************)
(* ticktock: LRU cache management and automatic data timeout layered over  *)
(* Python's shelve.Shelf (src/ticktock.py).                                *)
(*                                                                         *)
(* One handle (LRUShelf, TimeoutShelf or LRUTimeoutShelf) over one dbm     *)
(* store.  A handle's methods are pure operators over a record `s` that    *)
(* carries the object's attributes (dict, _index, _queue, maxsize,         *)
(* timeout) together with the outcome of the call (e: the exception that   *)
(* escaped, r: the value returned, b: the boolean returned, y: the keys    *)
(* yielded).  The store is opened with writeback=False, the default of     *)
(* open().  Time is counted in ticks, TicksPerSec ticks to the second, so  *)
(* that int(time() + timeout) truncates as it does in the code.            *)
(***************************************************************************)
EXTENDS Integers, Sequences, FiniteSets, TLC

\* ------------------------------------------------------------- bounds
TicksPerSec == 2      \* clock resolution of the model
MaxTime == 3          \* the clock stops advancing at this tick

Variants == {"LRU", "TTL", "LRUTTL"}
Timeouts == {0, 1}      \* per-key timeouts in seconds; 0: never expires

\* the values written, the maxsize settings (0: no size limit) and the
\* default timeouts tried with each class
ValuesOf(v) == IF v = "LRUTTL" THEN {1} ELSE {1, 2}
MaxsizesOf(v) == IF v = "LRU" THEN {0, 1, 2} ELSE IF v = "LRUTTL" THEN {0, 1} ELSE {0}
TimeoutsOf(v) == IF v = "LRU" THEN {0} ELSE IF v = "TTL" THEN {1} ELSE {0, 1}

\* the keys the calls are made with: three where only recency is tracked,
\* two where every key also carries an expiry time
KeysOf(v) == IF v = "LRU" THEN {"a", "b", "c"} ELSE {"a", "b"}

\* _TimeoutMixin._INDEX, the protected key of the timeout index
INDEX == "f1dd04ff3d4d9adfabd43a3f9fda9b4b78302b21"

\* Python's None as a timeout-index value: the key never expires
NONE == -1

NoError == "none"
KeyError == "KeyError"                \* KeyError(key): absent or expired
ProtectedKeyError == "ProtectedKey"   \* KeyError("cannot access/delete protected key")
ReservedKeyError == "ReservedKey"     \* TypeError("reserved key name")
ValueError == "ValueError"            \* deque.remove(x): x not in deque; closed shelf
KeyErrors == {KeyError, ProtectedKeyError}

\* ------------------------------------------------------------ helpers
Put(f, k, v) == [x \in DOMAIN f \cup {k} |-> IF x = k THEN v ELSE f[x]]
Drop(f, k) == [x \in DOMAIN f \ {k} |-> f[x]]
Empty == [x \in {} |-> 0]
SeqSet(q) == {q[i] : i \in 1..Len(q)}
Perms(S) == {p \in [1..Cardinality(S) -> S] : \A x \in S : \E i \in DOMAIN p : p[i] = x}

Raise(s, err) == [s EXCEPT !.e = err]
Failed(s) == s.e # NoError

\* collections.deque.remove(key): removes the first occurrence
DequeRemove(q, k) ==
  LET i == CHOOSE j \in 1..Len(q) : q[j] = k /\ \A h \in 1..(j - 1) : q[h] # k
  IN  [j \in 1..(Len(q) - 1) |-> IF j < i THEN q[j] ELSE q[j + 1]]

\* ------------------------------------------------- the wrapped Shelf
\* _NewOldMixin routes the calls to shelve.Shelf over the dbm store.
\* After Shelf.close() self.dict is a _ClosedDict that raises ValueError.
NewOld_getitem(s, k) ==
  IF s.closed THEN Raise(s, ValueError)
  ELSE IF k \notin DOMAIN s.d THEN Raise(s, KeyError)
  ELSE IF k = INDEX THEN [s EXCEPT !.rx = s.d[k]]
  ELSE [s EXCEPT !.r = s.d[k]]

NewOld_setitem(s, k, v) ==
  IF s.closed THEN Raise(s, ValueError)
  ELSE [s EXCEPT !.d = Put(s.d, k, v), !.dirty = TRUE]

\* mutant: the record is left in the store
NewOld_delitem_keep(s, k) ==
  IF s.closed THEN Raise(s, ValueError)
  ELSE IF k \notin DOMAIN s.d THEN Raise(s, KeyError)
  ELSE s

NewOld_delitem(s, k) ==
  IF s.closed THEN Raise(s, ValueError)
  ELSE IF k \notin DOMAIN s.d THEN Raise(s, KeyError)
  ELSE [s EXCEPT !.d = Drop(s.d, k), !.dirty = TRUE]

NewOld_len(s) == Cardinality(DOMAIN s.d)

\* Shelf.__contains__ (not overridden by _NewOldMixin)
Shelf_contains(s, k) == k \in DOMAIN s.d

\* Shelf.__iter__: the store's keys in its native order, a snapshot list.
\* `ord` is that order on the ordinary keys; the index key's place in it has
\* no effect, it is put first.
NewOld_iter(s, ord) ==
  (IF INDEX \in DOMAIN s.d THEN <<INDEX>> ELSE <<>>)
    \o SelectSeq(ord, LAMBDA k : k \in DOMAIN s.d)

\* ------------------------------------------------------ method dispatch
\* The class of the handle decides which mixins a call on `self` passes
\* through: LRUShelf(_LRUMixin, _NewOldMixin, Shelf),
\* TimeoutShelf(_TimeoutMixin, _NewOldMixin, Shelf),
\* LRUTimeoutShelf(_LRUMixin, TimeoutShelf).
HasLRU(s) == s.v \in {"LRU", "LRUTTL"}
HasTTL(s) == s.v \in {"TTL", "LRUTTL"}

\* int(time() + timeout) if timeout else None, the clock reading t in ticks
Expiry(t, ttl) == IF ttl = 0 THEN NONE ELSE (t + ttl * TicksPerSec) \div TicksPerSec

\* ---------------------------------------------------------- __delitem__
\* mutant: a deleted key keeps its entry in the index
Index_forget_skip(s, k) == s

\* what _TimeoutMixin.__delitem__ does once super().__delitem__ has been
\* called and has left the handle as s: del self._index[key]
Index_forget(s, k) ==
  IF Failed(s) THEN s
  ELSE IF ~s.hasIndex THEN s
  ELSE IF k \notin DOMAIN s.ix THEN Raise(s, KeyError)
  ELSE [s EXCEPT !.ix = Drop(s.ix, k)]

\* mutant: the index key is deleted like any other key
Timeout_delitem_unguarded(s, k) == Index_forget(NewOld_delitem(s, k), k)

\* _TimeoutMixin.__delitem__
Timeout_delitem(s, k) ==
  IF k = INDEX THEN Raise(s, ProtectedKeyError)
  ELSE Index_forget(NewOld_delitem(s, k), k)

\* mutant: a deleted key stays in the queue
Queue_forget_skip(s, k) == s

\* what _LRUMixin.__delitem__ does once super().__delitem__ has been called
\* and has left the handle as s: self._queue.remove(key)
Queue_forget(s, k) ==
  IF Failed(s) THEN s
  ELSE IF ~s.hasQueue THEN s
  ELSE IF k \notin SeqSet(s.q) THEN Raise(s, ValueError)
  ELSE [s EXCEPT !.q = DequeRemove(s.q, k)]

\* _LRUMixin.__delitem__: super() is _TimeoutMixin in LRUTimeoutShelf and
\* _NewOldMixin in LRUShelf
LRU_delitem(s, k) ==
  Queue_forget(IF HasTTL(s) THEN Timeout_delitem(s, k) ELSE NewOld_delitem(s, k), k)

\* del self[key]
DelItem(s, k) == IF HasLRU(s) THEN LRU_delitem(s, k) ELSE Timeout_delitem(s, k)

\* ------------------------------------------------------------ expiry
\* `return b` after a call that left the handle as s
Answer(s, b) == IF Failed(s) THEN s ELSE [s EXCEPT !.b = b]

\* mutant: reports an expired key without deleting it
is_expired_nodel(s, k, t) ==
  IF ~s.hasIndex THEN [s EXCEPT !.b = FALSE]
  ELSE IF k \notin DOMAIN s.ix THEN Raise(s, KeyError)
  ELSE [s EXCEPT !.b = ~(s.ix[k] = NONE \/ s.ix[k] * TicksPerSec >= t)]

\* _TimeoutMixin._is_expired: the answer in b; an expired key is deleted
is_expired(s, k, t) ==
  IF ~s.hasIndex THEN [s EXCEPT !.b = FALSE]
  ELSE IF k \notin DOMAIN s.ix THEN Raise(s, KeyError)
  ELSE IF s.ix[k] = NONE \/ s.ix[k] * TicksPerSec >= t THEN [s EXCEPT !.b = FALSE]
  ELSE Answer(DelItem(s, k), TRUE)

\* ----------------------------------------------------------- recency
\* mutant: discards the most recently used key, del self[self._queue[-1]]
RECURSIVE Evict_tail(_)
Evict_tail(s) ==
  IF Failed(s) THEN s
  ELSE IF Len(s.q) > s.maxsize THEN Evict_tail(DelItem(s, s.q[Len(s.q)]))
  ELSE s

\* mutant: the loop stops one key above the limit
RECURSIVE Evict_late(_)
Evict_late(s) ==
  IF Failed(s) THEN s
  ELSE IF Len(s.q) > s.maxsize + 1 THEN Evict_late(DelItem(s, s.q[1]))
  ELSE s

\* mutant: an `if` in place of the `while`, one key at most is discarded
Evict_once(s) ==
  IF Failed(s) THEN s
  ELSE IF Len(s.q) > s.maxsize THEN DelItem(s, s.q[1])
  ELSE s

\* the while loop of _remove_add_key: del self[self._queue[0]]
RECURSIVE Evict(_)
Evict(s) ==
  IF Failed(s) THEN s
  ELSE IF Len(s.q) > s.maxsize THEN Evict(DelItem(s, s.q[1]))
  ELSE s

\* mutant: a key already in the queue keeps its place
remove_add_key_nomove(s, k) ==
  IF ~s.hasQueue THEN s
  ELSE LET s1 == IF k \in SeqSet(s.q) THEN s ELSE [s EXCEPT !.q = Append(s.q, k)]
       IN  IF s1.maxsize = 0 THEN s1 ELSE Evict(s1)

\* mutant: the key is appended without being removed from its old place
remove_add_key_dup(s, k) ==
  IF ~s.hasQueue THEN s
  ELSE LET s1 == [s EXCEPT !.q = Append(s.q, k)]
       IN  IF s1.maxsize = 0 THEN s1 ELSE Evict(s1)

\* mutant: the key is put at the head of the queue, appendleft(key)
remove_add_key_front(s, k) ==
  IF ~s.hasQueue THEN s
  ELSE LET q1 == IF k \in SeqSet(s.q) THEN DequeRemove(s.q, k) ELSE s.q
           s1 == [s EXCEPT !.q = <<k>> \o q1]
       IN  IF s1.maxsize = 0 THEN s1 ELSE Evict(s1)

\* _LRUMixin._remove_add_key
remove_add_key(s, k) ==
  IF ~s.hasQueue THEN s
  ELSE LET q1 == IF k \in SeqSet(s.q) THEN DequeRemove(s.q, k) ELSE s.q
           s1 == [s EXCEPT !.q = Append(q1, k)]
       IN  IF s1.maxsize = 0 THEN s1 ELSE Evict(s1)

\* ---------------------------------------------------------- __getitem__
\* self._remove_add_key(key) after a super() call that left the handle as s;
\* the value the super() call returned stays in r
Touch(s, k) == IF Failed(s) THEN s ELSE remove_add_key(s, k)

\* _TimeoutMixin.__getitem__ once _is_expired has been called and has left
\* the handle as s
Timeout_getitem_load(s, k) ==
  IF s.e \in KeyErrors THEN Raise(s, KeyError)
  ELSE IF Failed(s) THEN s
  ELSE IF s.b THEN Raise(s, KeyError)
  ELSE LET s2 == NewOld_getitem(s, k) IN
       IF s2.e \in KeyErrors THEN Raise(s2, KeyError) ELSE s2

\* _TimeoutMixin.__getitem__: a KeyError of _is_expired or of the store is
\* caught and KeyError(key) raised; any other exception escapes
Timeout_getitem(s, k, t) ==
  IF k = INDEX THEN Raise(s, ProtectedKeyError)
  ELSE Timeout_getitem_load(is_expired(s, k, t), k)

\* mutant: the key is moved to the tail before it is read
LRU_getitem_eager(s, k, t) ==
  IF HasTTL(s) THEN Timeout_getitem(remove_add_key(s, k), k, t)
  ELSE NewOld_getitem(remove_add_key(s, k), k)

\* _LRUMixin.__getitem__
LRU_getitem(s, k, t) ==
  Touch(IF HasTTL(s) THEN Timeout_getitem(s, k, t) ELSE NewOld_getitem(s, k), k)

\* self[key]
GetItem(s, k, t) == IF HasLRU(s) THEN LRU_getitem(s, k, t) ELSE Timeout_getitem(s, k, t)

\* ---------------------------------------------------------- __setitem__
\* self._index[key] = int(time() + ttl) if ttl else None, after a write that
\* left the handle as s
Index_put(s, k, ttl, t) ==
  IF Failed(s) THEN s
  ELSE IF ~s.hasIndex THEN s
  ELSE [s EXCEPT !.ix = Put(s.ix, k, Expiry(t, ttl))]

\* _TimeoutMixin.__setitem__
Timeout_setitem(s, k, v, t) ==
  IF k = INDEX THEN Raise(s, ReservedKeyError)
  ELSE Index_put(NewOld_setitem(s, k, v), k, s.timeout, t)

\* _LRUMixin.__setitem__
LRU_setitem(s, k, v, t) ==
  Touch(IF HasTTL(s) THEN Timeout_setitem(s, k, v, t) ELSE NewOld_setitem(s, k, v), k)

\* self[key] = value
SetItem(s, k, v, t) == IF HasLRU(s) THEN LRU_setitem(s, k, v, t) ELSE Timeout_setitem(s, k, v, t)

\* _TimeoutMixin.settimeout
settimeout(s, k, v, ttl, t) == Index_put(SetItem(s, k, v, t), k, ttl, t)

\* ----------------------------------------------- iteration, containment
\* _TimeoutMixin.__iter__ run to its end over the raw keys `ks`: the keys
\* yielded are appended to y
RECURSIVE Timeout_iter(_, _, _)
\* mutant: the key is yielded whatever _is_expired answered
Timeout_iter_yield_all(s, ks, t) ==
  IF Failed(s) THEN s
  ELSE Timeout_iter([s EXCEPT !.y = Append(s.y, Head(ks))], Tail(ks), t)

\* `if not self._is_expired(key): yield key`, _is_expired having left the
\* handle as s; then the rest of the loop
Timeout_iter_yield(s, ks, t) ==
  IF Failed(s) THEN s
  ELSE IF s.b THEN Timeout_iter(s, Tail(ks), t)
  ELSE Timeout_iter([s EXCEPT !.y = Append(s.y, Head(ks))], Tail(ks), t)

Timeout_iter(s, ks, t) ==
  IF Failed(s) \/ ks = <<>> THEN s
  ELSE IF Head(ks) = INDEX THEN Timeout_iter(s, Tail(ks), t)
  ELSE Timeout_iter_yield(is_expired(s, Head(ks), t), ks, t)

\* iter(self) consumed completely, as list(self.keys()) does
Iter(s, ord, t) ==
  IF s.closed THEN Raise(s, ValueError)
  ELSE IF HasTTL(s) THEN Timeout_iter([s EXCEPT !.y = <<>>], NewOld_iter(s, ord), t)
  ELSE [s EXCEPT !.y = NewOld_iter(s, ord)]

\* _TimeoutMixin.__contains__
Timeout_contains(s, k) == IF k = INDEX THEN FALSE ELSE Shelf_contains(s, k)

\* key in self
Contains(s, k) == IF HasTTL(s) THEN Timeout_contains(s, k) ELSE Shelf_contains(s, k)

\* mutant: the index record is counted
Timeout_len_all(s) == NewOld_len(s)

\* _TimeoutMixin.__len__
Timeout_len(s) == NewOld_len(s) - 1

\* len(self)
Length(s) == IF HasTTL(s) THEN Timeout_len(s) ELSE NewOld_len(s)

\* `return value` after a call that left the handle as s
Value(s, v) == IF Failed(s) THEN s ELSE [s EXCEPT !.r = v]

\* _TimeoutMixin.set: the function's result is v
set(s, k, v, t) ==
  IF Contains(s, k) THEN GetItem(s, k, t)
  ELSE Value(SetItem(s, k, v, t), v)

\* -------------------------------------------------------------- clear
\* clear() and popitem() are MutableMapping's, inherited through Shelf:
\* clear() calls popitem() until it raises KeyError; popitem() takes the
\* first key iter(self) yields, reads it and deletes it.
RECURSIVE Timeout_first(_, _, _)
\* next() on the generator of _TimeoutMixin.__iter__, _is_expired having
\* left the handle as s: the key is yielded in y, or the loop goes on
Timeout_first_yield(s, ks, t) ==
  IF Failed(s) THEN s
  ELSE IF s.b THEN Timeout_first(s, Tail(ks), t)
  ELSE [s EXCEPT !.y = <<Head(ks)>>]

\* next(iter(self)) over the raw keys ks; StopIteration becomes KeyError
Timeout_first(s, ks, t) ==
  IF Failed(s) THEN s
  ELSE IF ks = <<>> THEN Raise(s, KeyError)
  ELSE IF Head(ks) = INDEX THEN Timeout_first(s, Tail(ks), t)
  ELSE Timeout_first_yield(is_expired(s, Head(ks), t), ks, t)

\* key = next(iter(self))
First(s, ord, t) ==
  IF s.closed THEN Raise(s, ValueError)
  ELSE IF HasTTL(s) THEN Timeout_first([s EXCEPT !.y = <<>>], NewOld_iter(s, ord), t)
  ELSE IF NewOld_iter(s, ord) = <<>> THEN Raise(s, KeyError)
  ELSE [s EXCEPT !.y = <<Head(NewOld_iter(s, ord))>>]

\* del self[key] after value = self[key] left the handle as s
popitem_del(s, k) == IF Failed(s) THEN s ELSE DelItem(s, k)

\* value = self[key]; del self[key], the key being the one in y
popitem_take(s, t) ==
  IF Failed(s) THEN s ELSE popitem_del(GetItem(s, s.y[1], t), s.y[1])

\* MutableMapping.popitem
popitem(s, ord, t) == popitem_take(First(s, ord, t), t)

\* MutableMapping.clear: `except KeyError: pass` ends the loop
RECURSIVE clear(_, _, _)
clear(s, ord, t) ==
  IF s.e \in KeyErrors THEN [s EXCEPT !.e = NoError, !.y = <<>>]
  ELSE IF Failed(s) THEN s
  ELSE clear(popitem(s, ord, t), ord, t)

\* ------------------------------------------------- repr, sync, close
\* _TimeoutMixin.__repr__: purge by iterating, take the index out of the
\* store, build the inherited representation, put the index back.  `shown`
\* is what the inherited representation has to draw on: the keys the store
\* holds at that moment.
\* _TimeoutMixin.__repr__ once the iteration has left the handle as s
Timeout_repr_hidden(s) ==
  IF Failed(s) THEN s
  ELSE LET s2 == NewOld_delitem(s, INDEX) IN
       IF Failed(s2) THEN s2
       ELSE [NewOld_setitem(s2, INDEX, s2.ix) EXCEPT !.shown = DOMAIN s2.d]

Timeout_repr(s, ord, t) == Timeout_repr_hidden(Iter(s, ord, t))

\* Shelf.sync with writeback off: the dbm store's own sync()
Shelf_sync(s) == IF s.closed THEN s ELSE [s EXCEPT !.dirty = FALSE]

\* mutant: the store is flushed without the index being written to it
Timeout_sync_nowrite(s) == Shelf_sync(s)

\* _TimeoutMixin.sync
Timeout_sync(s) ==
  LET s1 == NewOld_setitem(s, INDEX, s.ix) IN
  IF Failed(s1) THEN s1 ELSE Shelf_sync(s1)

\* self.sync()
Sync(s) == IF HasTTL(s) THEN Timeout_sync(s) ELSE Shelf_sync(s)

\* Shelf.close (inherited by every variant): self.sync(), self.dict.close(),
\* and in any case self.dict = _ClosedDict()
Shelf_close(s) ==
  LET s1 == Sync(s) IN
  IF Failed(s1) THEN [s1 EXCEPT !.closed = TRUE]
  ELSE [s1 EXCEPT !.closed = TRUE, !.dirty = FALSE]

\* ------------------------------------------------------- construction
\* the attributes of an object whose __init__ has not run yet, over store d
NewObject(v, d, ms, to) ==
  [v |-> v, maxsize |-> ms, timeout |-> to, d |-> d, ix |-> Empty, q |-> <<>>,
   hasIndex |-> FALSE, hasQueue |-> FALSE, closed |-> FALSE, dirty |-> FALSE,
   e |-> NoError, r |-> 0, rx |-> Empty, b |-> FALSE, y |-> <<>>, shown |-> {}]

\* `for key in self: self._is_expired(key)` of _TimeoutMixin.__init__: the
\* generator checks a key, yields it if it is live, and the loop body checks
\* it again
RECURSIVE Timeout_init_scan(_, _, _)
\* the loop body self._is_expired(key), run if the generator yielded the key
\* (its own _is_expired having left the handle as s); then the rest of the loop
Timeout_init_body(s, ks, t) ==
  IF Failed(s) THEN s
  ELSE IF s.b THEN Timeout_init_scan(s, Tail(ks), t)
  ELSE Timeout_init_scan(is_expired(s, Head(ks), t), Tail(ks), t)

Timeout_init_scan(s, ks, t) ==
  IF Failed(s) \/ ks = <<>> THEN s
  ELSE IF Head(ks) = INDEX THEN Timeout_init_scan(s, Tail(ks), t)
  ELSE Timeout_init_body(is_expired(s, Head(ks), t), ks, t)

\* _TimeoutMixin.__init__ (timeout is already in s)
Timeout_init(s, ord, t) ==
  LET s1 == NewOld_getitem(s, INDEX) IN
  IF s1.e = KeyError
    THEN NewOld_setitem([s EXCEPT !.ix = Empty, !.hasIndex = TRUE], INDEX, Empty)
  ELSE IF Failed(s1) THEN s1
  ELSE Timeout_init_scan([s1 EXCEPT !.ix = s1.rx, !.hasIndex = TRUE],
                         NewOld_iter(s1, ord), t)

\* `for key in list(self.keys()): self._remove_add_key(key)`
RECURSIVE LRU_init_fill(_, _)
LRU_init_fill(s, ks) ==
  IF Failed(s) \/ ks = <<>> THEN s
  ELSE LRU_init_fill(remove_add_key(s, Head(ks)), Tail(ks))

\* the keys list(self.keys()) returned, the listing having left the handle
\* as s, are put in the queue one by one
LRU_init_keys(s) == LRU_init_fill(s, s.y)

\* _LRUMixin.__init__ once super().__init__ has left the handle as s:
\* self._queue = deque(), then the existing keys are listed
LRU_init_queue(s, ord, t) ==
  IF Failed(s) THEN s
  ELSE LRU_init_keys(Iter([s EXCEPT !.q = <<>>, !.hasQueue = TRUE], ord, t))

\* _LRUMixin.__init__ (maxsize is already in s): the base class is set up at
\* clock reading t1, the existing keys are listed at t2 >= t1
LRU_init(s, ord, t1, t2) ==
  LRU_init_queue(IF HasTTL(s) THEN Timeout_init(s, ord, t1) ELSE s, ord, t2)

\* open(): the class chosen by maxsize and timeout, constructed over store d
Open(v, d, ms, to, ord, t1, t2) ==
  IF v = "TTL" THEN Timeout_init(NewObject(v, d, ms, to), ord, t1)
  ELSE LRU_init(NewObject(v, d, ms, to), ord, t1, t2)

\* ---------------------------------------------------------------- state
VARIABLES
  variant,   \* the class of the handle: "LRU", "TTL" or "LRUTTL"
  maxsize,   \* self.maxsize
  timeout,   \* self.timeout
  dict,      \* the dbm store: key -> value, INDEX -> the pickled timeout index
  index,     \* self._index
  queue,     \* self._queue, least recently used first
  dirty,     \* the store has writes its sync()/close() has not flushed yet
  status,    \* "open", "closed" (after close()) or "failed" (__init__ raised)
  now,       \* the clock, in ticks
  last       \* the last call: its name, arguments and outcome

vars == <<variant, maxsize, timeout, dict, index, queue, dirty, status, now, last>>

Keys == KeysOf(variant)
Orders == Perms(Keys)
Values == ValuesOf(variant)
Maxsizes == MaxsizesOf(variant)
TTL == variant \in {"TTL", "LRUTTL"}
LRU == variant \in {"LRU", "LRUTTL"}

\* the handle as the methods see it
Self ==
  [v |-> variant, maxsize |-> maxsize, timeout |-> timeout, d |-> dict,
   ix |-> index, q |-> queue, hasIndex |-> TTL, hasQueue |-> LRU,
   closed |-> status = "closed", dirty |-> dirty,
   e |-> NoError, r |-> 0, rx |-> Empty, b |-> FALSE, y |-> <<>>, shown |-> {}]

\* where key k stands before a call: not in the store, in it without an
\* expiry time, or in it with an expiry time after, at or before the clock
Pre(k) ==
  IF k \notin DOMAIN dict THEN "absent"
  ELSE IF ~TTL \/ k \notin DOMAIN index THEN "never"
  ELSE IF index[k] = NONE THEN "never"
  ELSE IF index[k] * TicksPerSec > now THEN "future"
  ELSE IF index[k] * TicksPerSec = now THEN "now"
  ELSE "past"

\* the record of a call.  op, k, v: the call and its arguments; e: the
\* exception it raised; r, b, y: the value, boolean or key set it returned;
\* shown: the keys repr() had to draw on; pre: Pre(k) before the call;
\* gone: the keys the call removed from the store; live: the keys that were
\* live when close() was called
Obs(op, k, v, s, pre) ==
  [op |-> op, k |-> k, v |-> v, e |-> s.e,
   r |-> IF Failed(s) THEN 0
         ELSE IF op = "iter" THEN Len(s.y)
         ELSE IF op \in {"getitem", "set", "settimeout", "len"} THEN s.r
         ELSE 0,
   b |-> IF op = "contains" THEN s.b ELSE FALSE,
   y |-> IF op = "iter" THEN SeqSet(s.y) ELSE {},
   shown |-> s.shown, pre |-> pre,
   gone |-> (DOMAIN dict \ DOMAIN s.d) \ {INDEX}, live |-> {}]

\* the attributes a call leaves behind
Commit(s) ==
  /\ dict' = s.d
  /\ index' = s.ix
  /\ queue' = s.q
  /\ dirty' = s.dirty

\* a call that left the handle as s returns to the caller
Return(op, k, v, s, pre) == Commit(s) /\ last' = Obs(op, k, v, s, pre)

\* close() or open() left the handle as s; `live` is kept for the next open()
Returned(op, s, live) ==
  Commit(s) /\ last' = [Obs(op, "-", 0, s, "-") EXCEPT !.live = live]

\* open() over the store of the closed handle returned s, or raised
Opened(s) ==
  Returned("reopen", s, last.live) /\ status' = IF Failed(s) THEN "failed" ELSE "open"

\* open() over a new store returned s, or raised
Created(s) ==
  /\ variant = s.v
  /\ maxsize = s.maxsize
  /\ timeout = s.timeout
  /\ dict = s.d
  /\ index = s.ix
  /\ queue = s.q
  /\ dirty = s.dirty
  /\ status = IF Failed(s) THEN "failed" ELSE "open"
  /\ last = [op |-> "open", k |-> "-", v |-> 0, e |-> s.e, r |-> 0, b |-> FALSE,
             y |-> {}, shown |-> {}, pre |-> "-", gone |-> {}, live |-> {}]

\* keys of store d that index ix does not give an expiry time before t
Live(d, ix, t) ==
  {k \in DOMAIN d \ {INDEX} : k \in DOMAIN ix => (ix[k] = NONE \/ ix[k] * TicksPerSec >= t)}

\* open() of a new, empty store at time 0
Init ==
  /\ now = 0
  /\ \E v \in Variants :
     \E ms \in MaxsizesOf(v), to \in TimeoutsOf(v), ord \in Perms(KeysOf(v)) :
       Created(Open(v, Empty, ms, to, ord, 0, 0))

\* value = obj[key]
Get(k) ==
  /\ status = "open"
  /\ Return("getitem", k, 0, GetItem(Self, k, now), Pre(k))
  /\ UNCHANGED <<variant, maxsize, timeout, status, now>>

\* obj[key] = value
Set(k, v) ==
  /\ status = "open"
  /\ Return("setitem", k, v, SetItem(Self, k, v, now), Pre(k))
  /\ UNCHANGED <<variant, maxsize, timeout, status, now>>

\* obj.settimeout(key, value, ttl); the call's ttl is recorded in r
SetTimeout(k, v, ttl) ==
  /\ status = "open"
  /\ TTL
  /\ Return("settimeout", k, v, Value(settimeout(Self, k, v, ttl, now), ttl), Pre(k))
  /\ UNCHANGED <<variant, maxsize, timeout, status, now>>

\* del obj[key]
Del(k) ==
  /\ status = "open"
  /\ Return("delitem", k, 0, DelItem(Self, k), Pre(k))
  /\ UNCHANGED <<variant, maxsize, timeout, status, now>>

\* key in obj
In(k) ==
  /\ status = "open"
  /\ last' = Obs("contains", k, 0, [Self EXCEPT !.b = Contains(Self, k)], Pre(k))
  /\ UNCHANGED <<variant, maxsize, timeout, dict, index, queue, dirty, status, now>>

\* obj.set(key, func), func() returning v
GetOrCompute(k, v) ==
  /\ status = "open"
  /\ TTL
  /\ Return("set", k, v, set(Self, k, v, now), Pre(k))
  /\ UNCHANGED <<variant, maxsize, timeout, status, now>>

\* list(obj.keys()), the store's native order being ord; the number of keys
\* yielded is recorded in r
IterKeys(ord) ==
  /\ status = "open"
  /\ Return("iter", "-", 0, Iter(Self, ord, now), "-")
  /\ UNCHANGED <<variant, maxsize, timeout, status, now>>

\* len(obj)
Len_ ==
  /\ status = "open"
  /\ last' = Obs("len", "-", 0, [Self EXCEPT !.r = Length(Self)], "-")
  /\ UNCHANGED <<variant, maxsize, timeout, dict, index, queue, dirty, status, now>>

\* repr(obj)
Repr(ord) ==
  /\ status = "open"
  /\ TTL
  /\ Return("repr", "-", 0, Timeout_repr(Self, ord, now), "-")
  /\ UNCHANGED <<variant, maxsize, timeout, status, now>>

\* obj.sync()
Synchronize ==
  /\ status = "open"
  /\ Return("sync", "-", 0, Sync(Self), "-")
  /\ UNCHANGED <<variant, maxsize, timeout, status, now>>

\* obj.close(); called again on the closed handle it is recorded as "close2"
Close ==
  /\ status \in {"open", "closed"}
  /\ Returned(IF status = "open" THEN "close" ELSE "close2", Shelf_close(Self),
              IF status = "open" THEN Live(dict, index, now) ELSE last.live)
  /\ status' = "closed"
  /\ UNCHANGED <<variant, maxsize, timeout, now>>

\* open() again over the store a closed handle left, same class and limits;
\* the clock may advance by dt between the timeout index being loaded and
\* the LRU queue being filled
Reopen(ord, dt) ==
  /\ status = "closed"
  /\ now + dt <= MaxTime
  /\ Opened(Open(variant, dict, maxsize, timeout, ord, now, now + dt))
  /\ now' = now + dt
  /\ UNCHANGED <<variant, maxsize, timeout>>

\* obj.maxsize = m
SetMaxsize(m) ==
  /\ status = "open"
  /\ LRU
  /\ m # maxsize
  /\ maxsize' = m
  /\ last' = Obs("maxsize", "-", m, Self, "-")
  /\ UNCHANGED <<variant, timeout, dict, index, queue, dirty, status, now>>

\* time passes
Tick ==
  /\ now < MaxTime
  /\ now' = now + 1
  /\ last' = [Obs("tick", "-", 0, Self, "-")
                EXCEPT !.live = IF status = "closed" THEN last.live ELSE {}]
  /\ UNCHANGED <<variant, maxsize, timeout, dict, index, queue, dirty, status>>

Next ==
  \/ \E k \in Keys : Get(k)
  \/ \E k \in Keys, v \in Values : Set(k, v)
  \/ \E k \in Keys, v \in Values, ttl \in Timeouts : SetTimeout(k, v, ttl)
  \/ \E k \in Keys : Del(k)
  \/ \E k \in (IF TTL THEN Keys \cup {INDEX} ELSE Keys) : In(k)
  \/ \E k \in Keys, v \in Values : GetOrCompute(k, v)
  \/ \E ord \in Orders : IterKeys(ord)
  \/ Len_
  \/ \E ord \in Orders : Repr(ord)
  \/ Synchronize
  \/ Close
  \/ \E ord \in Orders, dt \in 0..1 : Reopen(ord, dt)
  \/ \E m \in Maxsizes : SetMaxsize(m)
  \/ Tick

Spec == Init /\ [][Next]_vars

\* the same calls, and those made with the index key itself as the key
NextSentinel ==
  \/ Next
  \/ TTL /\ Get(INDEX)
  \/ TTL /\ \E v \in Values : Set(INDEX, v)
  \/ TTL /\ \E v \in Values, ttl \in Timeouts : SetTimeout(INDEX, v, ttl)
  \/ TTL /\ Del(INDEX)

SpecSentinel == Init /\ [][NextSentinel]_vars

\* obj.clear(), the store's native order being ord
Clear(ord) ==
  /\ status = "open"
  /\ Return("clear", "-", 0, clear(Self, ord, now), "-")
  /\ UNCHANGED <<variant, maxsize, timeout, status, now>>

\* every public call: those above and clear()
NextFull ==
  \/ NextSentinel
  \/ \E ord \in Orders : Clear(ord)

SpecFull == Init /\ [][NextFull]_vars

\* the store a closed LRUShelf left, which holds no index record, is opened
\* with a timeout: open(filename, maxsize=None or ms, timeout=to).  The
\* stores taken are those whose keys are among the keys the new class is
\* called with.
Adopt(v, ms, to, ord) ==
  /\ status = "closed"
  /\ variant = "LRU"
  /\ DOMAIN dict \subseteq KeysOf(v)
  /\ Returned("adopt", Open(v, dict, ms, to, ord, now, now), {})
  /\ status' = IF Failed(Open(v, dict, ms, to, ord, now, now)) THEN "failed" ELSE "open"
  /\ variant' = v
  /\ maxsize' = ms
  /\ timeout' = to
  /\ UNCHANGED now

\* the calls of Next, and a store changing class between close() and open()
NextForeign ==
  \/ Next
  \/ \E v \in {"TTL", "LRUTTL"} :
     \E ms \in MaxsizesOf(v), to \in TimeoutsOf(v), ord \in Perms(KeysOf(v)) :
       Adopt(v, ms, to, ord)

SpecForeign == Init /\ [][NextForeign]_vars

\* ------------------------------------------------------------ properties
Unexpired(k, t) ==
  ~TTL \/ k \notin DOMAIN index \/ index[k] = NONE \/ index[k] * TicksPerSec >= t

Records == DOMAIN dict \ {INDEX}

\* C1: on a handle with timeouts the index key is never yielded by
\* iteration, `INDEX in obj` is false, repr() does not draw on it, the index
\* record is always in the store and len() is the number of other records.
C1_SentinelHidden ==
  (TTL /\ status = "open") =>
    /\ INDEX \in DOMAIN dict
    /\ ~Contains(Self, INDEX)
    /\ Length(Self) = Cardinality(Records)
    /\ \A ord \in Orders : INDEX \notin SeqSet(Iter(Self, ord, now).y)
    /\ (last.op = "iter" => INDEX \notin last.y)
    /\ (last.op = "contains" /\ last.k = INDEX => ~last.b)
    /\ (last.op = "len" => last.r = Cardinality(Records))
    /\ (last.op = "repr" /\ last.e = NoError => INDEX \notin last.shown)

\* repr() has run on a handle with timeouts that holds keys
C1_Witness ==
  TTL /\ status = "open" /\ last.op = "repr" /\ last.e = NoError /\ last.shown # {}

\* C2: in every class, after obj[k] = v (or settimeout) obj[k] returns v at
\* any later clock reading at which k's expiry time has not passed, no other
\* call in between; after del obj[k], k is not in obj and obj[k] raises
\* KeyError.
C2_SetThenGet ==
  status = "open" =>
    /\ (last.op \in {"setitem", "settimeout"} /\ last.e = NoError) =>
         \A t \in now..MaxTime :
           Unexpired(last.k, t) =>
             LET g == GetItem(Self, last.k, t) IN g.e = NoError /\ g.r = last.v
    /\ (last.op = "delitem" /\ last.e = NoError) =>
         /\ ~Contains(Self, last.k)
         /\ GetItem(Self, last.k, now).e = KeyError

\* a write to a full LRU shelf that made it discard another key
C2_Witness ==
  /\ status = "open" /\ variant = "LRU" /\ last.op = "setitem"
  /\ last.v = 2 /\ last.gone # {}

\* the timeout a write gave its key, in seconds
TtlOf(l) == IF l.op = "settimeout" THEN l.r ELSE timeout

Purged(k) == k \notin DOMAIN dict /\ k \notin DOMAIN index

\* C3 as stated: a key is expired as soon as its expiry time is <= the
\* clock; obj[k] at T' >= T + ttl raises KeyError and k is gone from the
\* store and the index.
C3_ExpiredAtOrBefore ==
  (TTL /\ status = "open") =>
    /\ (last.op = "getitem" /\ last.pre \in {"now", "past"}) =>
         last.e = KeyError /\ Purged(last.k)
    /\ (last.op \in {"setitem", "settimeout"} /\ last.e = NoError /\ TtlOf(last) > 0) =>
         \A t \in now..MaxTime :
           t - now >= TtlOf(last) * TicksPerSec =>
             LET g == GetItem(Self, last.k, t) IN
             g.e = KeyError /\ last.k \notin DOMAIN g.d /\ last.k \notin DOMAIN g.ix

\* C3 amended: a key is expired once its expiry time is < the clock;
\* obj[k] at T' > T + ttl raises KeyError and k is gone from the store and
\* the index.
C3_ExpiredBefore ==
  (TTL /\ status = "open") =>
    /\ (last.op = "getitem" /\ last.pre = "past") =>
         last.e = KeyError /\ Purged(last.k)
    /\ (last.op \in {"setitem", "settimeout"} /\ last.e = NoError /\ TtlOf(last) > 0) =>
         \A t \in now..MaxTime :
           t - now > TtlOf(last) * TicksPerSec =>
             LET g == GetItem(Self, last.k, t) IN
             g.e = KeyError /\ last.k \notin DOMAIN g.d /\ last.k \notin DOMAIN g.ix

\* obj[k] was called on a key that was in the store with its expiry time past
C3_Witness ==
  TTL /\ status = "open" /\ last.op = "getitem" /\ last.pre = "past" /\ last.e = KeyError

TouchOps == {"getitem", "setitem", "settimeout", "set"}

\* C4: on a handle with LRU management and maxsize > 0, after construction
\* and after every obj[k] = v, settimeout, set or obj[k] that returns, len()
\* and the queue length are <= maxsize; and no call that leaves maxsize as
\* it is takes the handle from within the limit to beyond it.
C4_AfterCall ==
  (LRU /\ status = "open" /\ maxsize > 0 /\ last.e = NoError
     /\ last.op \in TouchOps \cup {"open", "reopen"}) =>
    Length(Self) <= maxsize /\ Len(queue) <= maxsize

C4_Kept ==
  (LRU /\ status = "open" /\ status' = "open" /\ maxsize > 0 /\ maxsize' = maxsize
     /\ Length(Self) <= maxsize /\ Len(queue) <= maxsize) =>
    (Length(Self) <= maxsize /\ Len(queue) <= maxsize)'

C4_Bound == [](C4_AfterCall) /\ [][C4_Kept]_vars

\* a write of a new key to a shelf that was at its limit
C4_Witness ==
  /\ LRU /\ status = "open" /\ maxsize > 0 /\ last.op = "setitem"
  /\ last.pre = "absent" /\ last.gone # {} /\ Len(queue) = maxsize

MoveToTail(q, k) == Append(SelectSeq(q, LAMBDA x : x # k), k)
Overflow(q, ms) == IF ms = 0 \/ Len(q) <= ms THEN 0 ELSE Len(q) - ms

\* C5: on a handle with LRU management a key leaves the store only by its
\* own del, by being expired, or by eviction; eviction happens only in a call
\* that touches a key, with maxsize nonzero and exceeded by the queue, and
\* takes exactly the keys at the head of the queue (the touched key moved to
\* the tail first).  In particular a new key written to a shelf holding
\* maxsize >= 1 keys drops the queue's head and nothing else.
C5_Step ==
  LET gone == (DOMAIN dict \ DOMAIN dict') \ {INDEX}
      expired == {k \in gone : Pre(k) = "past"}
      deleted == IF last'.op = "delitem" THEN {last'.k} ELSE {}
      evicted == gone \ (expired \cup deleted)
  IN
  (LRU /\ status = "open" /\ status' = "open") =>
    /\ evicted # {} => (maxsize # 0 /\ last'.op \in TouchOps /\ last'.e = NoError)
    /\ (last'.op \in TouchOps /\ last'.e = NoError) =>
         LET q1 == MoveToTail(queue, last'.k)
             n == Overflow(q1, maxsize)
         IN  /\ gone = {q1[i] : i \in 1..n}
             /\ queue' = SubSeq(q1, n + 1, Len(q1))
             /\ last'.k \in DOMAIN dict'
    /\ (last'.op = "setitem" /\ Pre(last'.k) = "absent" /\ maxsize >= 1
          /\ Len(queue) = maxsize) =>
         /\ gone = {Head(queue)}
         /\ queue' = Append(Tail(queue), last'.k)
         /\ DOMAIN dict' \ {INDEX} = SeqSet(queue')

C5_EvictsHead == [][C5_Step]_vars

\* maxsize + 1 = 3 keys were written to an LRU shelf: the queue's head went
C5_Witness ==
  /\ variant = "LRU" /\ status = "open" /\ maxsize = 2 /\ last.op = "setitem"
  /\ last.pre = "absent" /\ last.gone # {} /\ Len(queue) = 2

\* C6 as stated: `k in obj` for a key that is in the store with its expiry
\* time past purges the key and is false; it is true only for keys that are
\* in the store and not expired.
C6_ContainsPurges ==
  (TTL /\ status = "open" /\ last.op = "contains" /\ last.k # INDEX) =>
    /\ last.pre = "past" => (~last.b /\ Purged(last.k))
    /\ last.b => last.pre \in {"never", "future", "now"}

\* C7 as stated: obj.set(k, func) returns the stored value of a key that is
\* in the store and not expired, leaving that key's record as it was; in
\* every other case it stores func()'s result with the default timeout and
\* returns it; it never raises KeyError.
C7_Step ==
  (TTL /\ status = "open" /\ last'.op = "set") =>
    LET k == last'.k IN
    /\ last'.e = NoError
    /\ k \in DOMAIN dict' /\ k \in DOMAIN index'
    /\ IF Pre(k) \in {"never", "future", "now"}
         THEN last'.r = dict[k] /\ dict'[k] = dict[k] /\ index'[k] = index[k]
         ELSE last'.r = last'.v /\ dict'[k] = last'.v
              /\ index'[k] = Expiry(now, timeout)

C7_GetOrCompute == [][C7_Step]_vars

\* C8 as stated: close() on a handle with timeouts that is closed already
\* raises nothing and leaves the store as the first close() left it.
C8_Step ==
  (TTL /\ status = "closed" /\ last'.op = "close2") =>
    (last'.e = NoError /\ dict' = dict)

C8_CloseTwice == [][C8_Step]_vars

\* C9: when sync() returns, the index record in the store equals
\* self._index and the store has been flushed since; another sync() leaves
\* the store as it is; close() leaves the store the same way, the index
\* written and flushed before the handle is closed.
C9_Sync ==
  TTL =>
    /\ (last.op = "sync" /\ status = "open") =>
         /\ last.e = NoError
         /\ INDEX \in DOMAIN dict /\ dict[INDEX] = index
         /\ ~dirty
         /\ Sync(Self).d = dict
    /\ last.op = "close" =>
         /\ last.e = NoError /\ status = "closed"
         /\ INDEX \in DOMAIN dict /\ dict[INDEX] = index
         /\ ~dirty

\* sync() has run with keys in the index
C9_Witness ==
  TTL /\ status = "open" /\ last.op = "sync" /\ index # Empty /\ last.e = NoError

\* C10 as stated, read in the code's favour: open() over the store of a
\* closed handle with timeouts succeeds, and the keys iteration then yields
\* are the keys that were live at close(), less those whose expiry time has
\* passed since and, where they are more than a nonzero maxsize, less the
\* ones put out to get back to maxsize.
C10_Step ==
  (TTL /\ status = "closed" /\ last'.op = "reopen") =>
    /\ last'.e = NoError
    /\ LET kept == {k \in last.live : Unexpired(k, now')} IN
       \A ord \in Orders :
         LET seen == (SeqSet(Iter(Self, ord, now).y))' IN
         /\ seen \subseteq kept
         /\ (maxsize = 0 \/ Cardinality(kept) <= maxsize) => seen = kept

C10_RoundTrip == [][C10_Step]_vars

SentinelErrors == {ProtectedKeyError, ReservedKeyError}

\* C11: on a handle with timeouts obj[INDEX], obj[INDEX] = v,
\* settimeout(INDEX, v, ttl) and del obj[INDEX] each raise the error kept for
\* the index key, and the store (the index record with it), self._index and
\* self._queue are as they were, nothing having been written.
C11_Step ==
  (TTL /\ status = "open" /\ last'.k = INDEX
     /\ last'.op \in {"getitem", "setitem", "settimeout", "delitem"}) =>
    /\ last'.e \in SentinelErrors
    /\ UNCHANGED <<dict, index, queue, dirty>>

C11_SentinelRefused == [][C11_Step]_vars

\* settimeout(INDEX, ...) was called on an LRU handle with timeouts that
\* holds keys
C11_Witness ==
  /\ variant = "LRUTTL" /\ status = "open" /\ last.op = "settimeout"
  /\ last.k = INDEX /\ queue # <<>> /\ index # Empty

\* C12 as stated: the expiry time of a key is set by the last write to it:
\* after settimeout(k, v, ttl) self._index[k] is None if ttl = 0 and
\* time() + ttl otherwise, whatever self.timeout is; after obj[k] = v it is
\* time() + self.timeout, or None if self.timeout is 0.
C12_ExpiryOfLastWrite ==
  (TTL /\ status = "open" /\ last.e = NoError /\ last.op \in {"setitem", "settimeout"}) =>
    /\ last.k \in DOMAIN index
    /\ IF TtlOf(last) = 0
         THEN index[last.k] = NONE
         ELSE /\ index[last.k] # NONE
              /\ index[last.k] * TicksPerSec = now + TtlOf(last) * TicksPerSec

NoDup(q) == \A i, j \in 1..Len(q) : q[i] = q[j] => i = j

\* C13: on a handle with LRU management the queue never holds a key twice,
\* and a call that touches a key already in the queue (obj[k] that returns,
\* obj[k] = v, settimeout, set) leaves that key at the tail and the other
\* keys in the order they had; where the queue is not over maxsize the new
\* queue is the old one with the key taken out and appended.
C13_Step ==
  (LRU /\ status = "open" /\ last'.op \in TouchOps /\ last'.e = NoError
     /\ last'.k \in SeqSet(queue)) =>
    LET k == last'.k IN
    /\ queue' # <<>> /\ queue'[Len(queue')] = k
    /\ SelectSeq(queue', LAMBDA x : x # k)
         = SelectSeq(queue, LAMBDA x : x # k /\ x \in SeqSet(queue'))
    /\ (maxsize = 0 \/ Len(queue) <= maxsize) => queue' = MoveToTail(queue, k)

C13_Reorder == [](LRU => NoDup(queue)) /\ [][C13_Step]_vars

\* a, b, c were written, then b and then a were read: the queue is c, b, a
C13_Witness ==
  /\ variant = "LRU" /\ status = "open" /\ queue = <<"c", "b", "a">>
  /\ last.op = "getitem" /\ last.k = "a" /\ last.e = NoError /\ last.gone = {}

\* C14: on a handle with LRU management, after construction and after
\* every public call, failed ones and those that evict or purge included,
\* the keys in self._queue are the keys of the store other than the index
\* key, so len(obj) is the length of the queue.
C14_QueueIsStore ==
  (LRU /\ status = "open") =>
    /\ SeqSet(queue) = DOMAIN dict \ {INDEX}
    /\ Length(Self) = Len(queue)

\* obj[k] on an LRU handle with timeouts found k expired, purged it and
\* raised KeyError, other keys staying
C14_Witness ==
  /\ variant = "LRUTTL" /\ status = "open" /\ last.op = "getitem"
  /\ last.pre = "past" /\ last.e = KeyError /\ queue # <<>>

C16_IndexWrittenThrough ==
  (TTL /\ status = "open" /\ INDEX \in DOMAIN dict
     /\ (\/ last.op \in {"setitem", "settimeout", "delitem"} /\ last.e = NoError
         \/ last.gone # {})) =>
    dict[INDEX] = index

\* C17: on a handle with LRU management obj[k] and del obj[k] for a key
\* that is not in the store raise KeyError and leave the store, self._index
\* and self._queue as they were; on an LRU handle with timeouts obj[k] for a
\* key that is in the store with its expiry time past raises KeyError and
\* takes exactly k out of the store, the index and the queue, the other
\* keys keeping their order and none of them being put out.
C17_Step ==
  LET k == last'.k IN
  /\ (LRU /\ status = "open" /\ last'.op \in {"getitem", "delitem"}
        /\ Pre(k) = "absent") =>
       /\ last'.e = KeyError
       /\ UNCHANGED <<dict, index, queue>>
  /\ (variant = "LRUTTL" /\ status = "open" /\ last'.op = "getitem"
        /\ Pre(k) = "past") =>
       /\ last'.e = KeyError
       /\ dict' = Drop(dict, k)
       /\ index' = Drop(index, k)
       /\ queue' = SelectSeq(queue, LAMBDA x : x # k)

C17_MissLeavesQueue == [][C17_Step]_vars

\* obj[k] found k expired on an LRU handle with timeouts whose queue was
\* over a lowered maxsize: k went, the other key stayed
C17_Witness ==
  /\ variant = "LRUTTL" /\ status = "open" /\ maxsize = 1
  /\ last.op = "getitem" /\ last.pre = "past" /\ last.e = KeyError
  /\ last.gone = {last.k} /\ Len(queue) = 1

\* C18: on a handle with LRU management that holds n keys, setting
\* obj.maxsize to m, 0 < m < n, changes neither the store nor the queue, and
\* every key that has not expired can still be read; the next obj[k] = v or
\* obj[k] that returns then discards keys from the head of the queue until m
\* are left, the key of that call among them.
C18_Readable ==
  (LRU /\ status = "open" /\ last.op = "maxsize" /\ 0 < maxsize /\ maxsize < Len(queue)) =>
    \A k \in SeqSet(queue) :
      Unexpired(k, now) =>
        LET g == GetItem(Self, k, now) IN g.e = NoError /\ g.r = dict[k]

C18_Step ==
  /\ (LRU /\ status = "open" /\ last'.op = "maxsize") =>
       UNCHANGED <<dict, index, queue>>
  /\ (LRU /\ status = "open" /\ 0 < maxsize /\ maxsize < Len(queue)
        /\ last'.op \in {"getitem", "setitem"} /\ last'.e = NoError) =>
       LET q1 == MoveToTail(queue, last'.k) IN
       /\ Len(queue') = maxsize
       /\ queue' = SubSeq(q1, Len(q1) - maxsize + 1, Len(q1))
       /\ DOMAIN dict' \ {INDEX} = SeqSet(queue')
       /\ last'.k \in DOMAIN dict'

C18_LazyShrink == [](C18_Readable) /\ [][C18_Step]_vars

\* three keys, maxsize lowered to 1, then obj[k] returned: two keys went
C18_Witness ==
  /\ variant = "LRU" /\ status = "open" /\ maxsize = 1
  /\ last.op = "getitem" /\ last.e = NoError /\ Cardinality(last.gone) = 2
  /\ queue = <<last.k>>

\* C19: on a handle with timeouts, list(obj) ends without an error and
\* yields, once each, exactly the records that have not expired, never the
\* index key; when it ends the expired records are gone from the store and
\* the index (and the queue), and the others keep value, expiry time and
\* queue order.
C19_Step ==
  (TTL /\ status = "open" /\ last'.op = "iter") =>
    LET live == Live(dict, index, now)
        kept(k) == k \in live
    IN
    /\ last'.e = NoError
    /\ last'.y = live
    /\ last'.r = Cardinality(live)
    /\ INDEX \notin last'.y
    /\ DOMAIN dict' = live \cup {INDEX}
    /\ DOMAIN index' = live
    /\ \A k \in live : dict'[k] = dict[k] /\ index'[k] = index[k]
    /\ LRU => queue' = SelectSeq(queue, kept)

C19_IterPurges == [][C19_Step]_vars

\* a scan that purged a key and yielded another, queue kept in step
C19_Witness ==
  /\ variant = "LRUTTL" /\ status = "open"
  /\ last.op = "iter" /\ last.e = NoError
  /\ last.gone # {} /\ last.y # {}
  /\ SeqSet(queue) = last.y

\* C20: open() of an LRUTimeoutShelf over the store a closed handle left
\* always returns, with the keys of the queue, the keys of the index and the
\* records of the store the same set, also when the expiry time of a key
\* passes between the check _TimeoutMixin.__init__ makes and the scan
\* _LRUMixin.__init__ makes to fill the queue.
C20_Step ==
  (variant = "LRUTTL" /\ status = "closed" /\ last'.op = "reopen") =>
    /\ last'.e = NoError
    /\ status' = "open"
    /\ SeqSet(queue') = DOMAIN index'
    /\ DOMAIN index' = DOMAIN dict' \ {INDEX}

C20_ReopenCompletes == [][C20_Step]_vars

\* C21: open() with a timeout over a store that holds records but no index
\* record returns, and every record it keeps then has an entry in _index:
\* obj[k] returns the stored value and list(obj) ends and yields k.
C21_Step ==
  (status = "closed" /\ last'.op = "adopt") =>
    /\ last'.e = NoError
    /\ status' = "open"
    /\ \A k \in DOMAIN dict' \ {INDEX} :
         /\ k \in DOMAIN index'
         /\ (GetItem(Self, k, now).e)' = NoError
         /\ (GetItem(Self, k, now).r)' = dict[k]
         /\ \A ord \in Perms(KeysOf(variant')) :
              /\ (Iter(Self, ord, now).e)' = NoError
              /\ k \in (SeqSet(Iter(Self, ord, now).y))'

C21_AdoptsForeignStore == [][C21_Step]_vars

\* C22: on a handle with LRU management, maxsize 0 or at least 1, a write
\* never discards the key it wrote: when obj[k] = v or settimeout(k, v, ttl)
\* returns, k is in the store with value v, k is the tail of the queue, k
\* has an entry in the index where there is one, and the keys the call
\* removed are keys other than k.
C22_Step ==
  (LRU /\ status = "open" /\ maxsize >= 0
     /\ last'.op \in {"setitem", "settimeout"} /\ last'.e = NoError) =>
    /\ last'.k \in DOMAIN dict'
    /\ dict'[last'.k] = last'.v
    /\ queue' # <<>>
    /\ queue'[Len(queue')] = last'.k
    /\ (TTL => last'.k \in DOMAIN index')
    /\ last'.k \notin last'.gone
    /\ last'.gone \subseteq SeqSet(queue) \ {last'.k}

C22_WriteKeepsKey == [][C22_Step]_vars

\* a write at maxsize 1 that put the other key out
C22_Witness ==
  /\ variant = "LRUTTL" /\ status = "open" /\ maxsize = 1
  /\ last.op = "settimeout" /\ last.e = NoError
  /\ last.gone # {} /\ queue = <<last.k>> /\ last.k \in DOMAIN index

\* C23: on a handle with timeouts a key whose obj[k] has raised KeyError
\* stays out of sight until it is written again.  In three parts: when
\* obj[k] raises KeyError the key is in neither the store nor the index;
\* a key that is not in the store is not in it after any step other than
\* obj[k] = v, settimeout(k, ...) or set(k, ...) on that key, sync(),
\* close() and open() over the same store included; and while a key is not
\* in the store obj[k] raises KeyError, `k in obj` is false and iteration
\* does not yield it.
C23_Hidden ==
  (TTL /\ status = "open") =>
    \A k \in Keys :
      k \notin DOMAIN dict =>
        /\ GetItem(Self, k, now).e = KeyError
        /\ ~Contains(Self, k)
        /\ \A ord \in Orders : k \notin SeqSet(Iter(Self, ord, now).y)

C23_Step ==
  TTL =>
    /\ (status = "open" /\ last'.op = "getitem" /\ last'.e = KeyError) =>
         last'.k \notin DOMAIN dict' /\ last'.k \notin DOMAIN index'
    /\ \A k \in Keys :
         (k \notin DOMAIN dict
            /\ ~(last'.op \in {"setitem", "settimeout", "set"} /\ last'.k = k)) =>
           k \notin DOMAIN dict'

C23_StaysExpired == [](C23_Hidden) /\ [][C23_Step]_vars

\* obj[k] of a key past its expiry time has just raised KeyError, the other
\* key is still there
C23_Witness ==
  /\ variant = "LRUTTL" /\ status = "open"
  /\ last.op = "getitem" /\ last.e = KeyError /\ last.pre = "past"
  /\ last.k \notin DOMAIN dict /\ last.gone = {last.k}
  /\ queue # <<>>

====
